---- MODULE Spec2Model ----
(***************************************************************************)
(* Snap-assisted interactive drawing: SnapService.findSnapPoint, the       *)
(* drawing actions of the zustand store (useStore) and the Viewport        *)
(* handlers that drive them.                                               *)
(*                                                                         *)
(* Numbers.  A coordinate is an exact rational [n, d] (d > 0, lowest       *)
(* terms) counted in hundredths of a world unit: 0.5 is [n |-> 50, d |-> 1]*)
(* and the 0.0001 of findLineIntersection is 1 (hundredth squared).        *)
(* A distance is kept as its square, so a <= b on distances is a <= b on   *)
(* the squares when both are non-negative.  Floating-point rounding is not *)
(* modelled; NaN is (see QNaN).                                            *)
(***************************************************************************)
EXTENDS Integers, Naturals, Sequences, FiniteSets, TLC

----------------------------------------------------------------------------
(* Exact rationals *)

\* null / undefined, and a present value
Null == << >>
Some(v) == << v >>
Val(o) == o[1]

Abs(a) == IF a < 0 THEN -a ELSE a

RECURSIVE GCD(_, _)
GCD(a, b) == IF b = 0 THEN a ELSE GCD(b, a % b)

\* n/d in lowest terms with a positive denominator (d # 0)
Q(n, d) ==
  LET s == IF d < 0 THEN -1 ELSE 1
      g == GCD(Abs(n), Abs(d))
  IN  [n |-> (s * n) \div g, d |-> (s * d) \div g]

QI(i) == [n |-> i, d |-> 1]

\* NaN: what x / 0 * 0 evaluates to; every comparison with it is false
QNaN == [n |-> 0, d |-> 0]
IsNaN(a) == a.d = 0

\* Common factors are divided out before multiplying, to keep the numbers small.
QAdd(a, b) ==
  LET g == GCD(a.d, b.d)
  IN  Q(a.n * (b.d \div g) + b.n * (a.d \div g), (a.d \div g) * b.d)
QNeg(a) == [n |-> -a.n, d |-> a.d]
QSub(a, b) == QAdd(a, QNeg(b))
QMul(a, b) ==
  LET g1 == GCD(Abs(a.n), b.d)
      g2 == GCD(Abs(b.n), a.d)
  IN  [n |-> (a.n \div g1) * (b.n \div g2), d |-> (a.d \div g2) * (b.d \div g1)]
QDiv(a, b) == QMul(a, IF b.n < 0 THEN [n |-> -b.d, d |-> -b.n] ELSE [n |-> b.d, d |-> b.n])
QCmp(a, b) ==
  LET g == GCD(a.d, b.d)
  IN  a.n * (b.d \div g) - b.n * (a.d \div g)
QLeq(a, b) == ~IsNaN(a) /\ ~IsNaN(b) /\ QCmp(a, b) <= 0
QLt(a, b) == ~IsNaN(a) /\ ~IsNaN(b) /\ QCmp(a, b) < 0
QMax(a, b) == IF QLt(a, b) THEN b ELSE a
QMin(a, b) == IF QLt(b, a) THEN b ELSE a

\* THREE.Vector3
Vec(x, y, z) == [x |-> x, y |-> y, z |-> z]
VI(x, y, z) == Vec(QI(x), QI(y), QI(z))
VSub(a, b) == Vec(QSub(a.x, b.x), QSub(a.y, b.y), QSub(a.z, b.z))
VAdd(a, b) == Vec(QAdd(a.x, b.x), QAdd(a.y, b.y), QAdd(a.z, b.z))
VScale(a, k) == Vec(QMul(a.x, k), QMul(a.y, k), QMul(a.z, k))
VDot(a, b) == QAdd(QAdd(QMul(a.x, b.x), QMul(a.y, b.y)), QMul(a.z, b.z))
VHasNaN(a) == IsNaN(a.x) \/ IsNaN(a.y) \/ IsNaN(a.z)

\* Vector3.distanceTo, squared
DistSq(a, b) == IF VHasNaN(a) \/ VHasNaN(b) THEN QNaN ELSE VDot(VSub(a, b), VSub(a, b))

\* Math.round(n / s) * s for an integer cursor coordinate n and spacing s:
\* Math.round rounds to the nearest integer, halves towards +infinity
\* variant: Math.floor in place of Math.round
MathRound_Floor(q) == q.n \div q.d

MathRound(q) == (2 * q.n + q.d) \div (2 * q.d)

\* variant: the rounded quotient not multiplied back by the spacing
RoundToSpacing_Quotient(c, spacing) ==
  IF spacing.n = 0 \/ IsNaN(c) THEN QNaN ELSE QI(MathRound(QDiv(c, spacing)))

RoundToSpacing(c, spacing) ==
  IF spacing.n = 0 \/ IsNaN(c) THEN QNaN
  ELSE QMul(QI(MathRound(QDiv(c, spacing))), spacing)

----------------------------------------------------------------------------
(* Coordinate frames: structural (x, y, z) <-> render (x, z, -y) *)

ToRender(p) == Vec(p.x, p.z, QNeg(p.y))

\* variant: render coordinates stored unconverted
ToStructural_Unconverted(r) == r

ToStructural(r) == Vec(r.x, QNeg(r.z), r.y)

----------------------------------------------------------------------------
(* SnapService (services/SnapService.ts) *)

SnapTypes == {"endpoint", "midpoint", "node", "grid", "perpendicular", "intersection"}

DEFAULT_SNAP_SETTINGS ==
  [enabled |-> TRUE,
   activeSnaps |-> [endpoint |-> TRUE, midpoint |-> TRUE, node |-> TRUE, grid |-> TRUE,
                    perpendicular |-> FALSE, intersection |-> FALSE],
   threshold |-> QI(50),
   gridSpacing |-> QI(100)]

SnapResult(type, position, elementId, cursor) ==
  [type |-> type, position |-> position, elementId |-> elementId,
   distance |-> DistSq(cursor, position)]

RECURSIVE Concat(_)
Concat(ss) == IF ss = << >> THEN << >> ELSE Head(ss) \o Concat(Tail(ss))

FindNodeSnaps(nodes, cursor) ==
  [i \in 1..Len(nodes) |-> SnapResult("node", nodes[i].position, Some(nodes[i].id), cursor)]

FindEndpointSnaps(frames, cursor) ==
  Concat([i \in 1..Len(frames) |->
            << SnapResult("endpoint", frames[i].startPos, Some(frames[i].id), cursor),
               SnapResult("endpoint", frames[i].endPos, Some(frames[i].id), cursor) >>])

FindMidpointSnaps(frames, cursor) ==
  [i \in 1..Len(frames) |->
     SnapResult("midpoint", VScale(VAdd(frames[i].startPos, frames[i].endPos), Q(1, 2)),
                Some(frames[i].id), cursor)]

FindGridSnap(settings, cursor) ==
  LET spacing == settings.gridSpacing
      snapPosition == Vec(RoundToSpacing(cursor.x, spacing), cursor.y,
                          RoundToSpacing(cursor.z, spacing))
  IN  SnapResult("grid", snapPosition, Null, cursor)

\* variant: the clamped point emitted without the interior test
PerpendicularOf_NoInteriorTest(frame, cursor) ==
  LET lineDir == VSub(frame.endPos, frame.startPos)
      lenSq == VDot(lineDir, lineDir)
      toCursor == VSub(cursor, frame.startPos)
      raw == IF lenSq.n = 0 THEN QI(0) ELSE QDiv(VDot(toCursor, lineDir), lenSq)
      u == QMax(QI(0), QMin(QI(1), raw))
  IN  << SnapResult("perpendicular", VAdd(frame.startPos, VScale(lineDir, u)),
                    Some(frame.id), cursor) >>

\* The code works with t = toCursor . lineDir/|lineDir|, clamped to [0, lineLength], and
\* tests 0.01 * lineLength < t < 0.99 * lineLength; u below is t / lineLength, which avoids
\* the square root.  A zero-length frame normalizes to the zero vector, so t = 0.
PerpendicularOf(frame, cursor) ==
  LET lineDir == VSub(frame.endPos, frame.startPos)
      lenSq == VDot(lineDir, lineDir)
      toCursor == VSub(cursor, frame.startPos)
      raw == IF lenSq.n = 0 THEN QI(0) ELSE QDiv(VDot(toCursor, lineDir), lenSq)
      u == QMax(QI(0), QMin(QI(1), raw))
      closestPoint == VAdd(frame.startPos, VScale(lineDir, u))
  IN  IF lenSq.n # 0 /\ QLt(Q(1, 100), u) /\ QLt(u, Q(99, 100))
      THEN << SnapResult("perpendicular", closestPoint, Some(frame.id), cursor) >>
      ELSE << >>

\* variant: no perpendicular candidates at all
FindPerpendicularSnaps_None(frames, cursor) == << >>

FindPerpendicularSnaps(frames, cursor) ==
  Concat([i \in 1..Len(frames) |-> PerpendicularOf(frames[i], cursor)])

\* variant: the intersection of the two lines, without the test on t and u
FindLineIntersection_Unbounded(frame1, frame2) ==
  LET x1 == frame1.startPos.x
      z1 == frame1.startPos.z
      x2 == frame1.endPos.x
      z2 == frame1.endPos.z
      x3 == frame2.startPos.x
      z3 == frame2.startPos.z
      x4 == frame2.endPos.x
      z4 == frame2.endPos.z
      denom == QSub(QMul(QSub(x1, x2), QSub(z3, z4)), QMul(QSub(z1, z2), QSub(x3, x4)))
  IN  IF QLt(QI(-1), denom) /\ QLt(denom, QI(1)) THEN Null
      ELSE LET t == QDiv(QSub(QMul(QSub(x1, x3), QSub(z3, z4)),
                              QMul(QSub(z1, z3), QSub(x3, x4))), denom)
           IN  Some(Vec(QAdd(x1, QMul(t, QSub(x2, x1))),
                        QAdd(frame1.startPos.y,
                             QMul(t, QSub(frame1.endPos.y, frame1.startPos.y))),
                        QAdd(z1, QMul(t, QSub(z2, z1)))))

\* 2D intersection in the XZ plane; Null when parallel or outside either segment
FindLineIntersection(frame1, frame2) ==
  LET x1 == frame1.startPos.x
      z1 == frame1.startPos.z
      x2 == frame1.endPos.x
      z2 == frame1.endPos.z
      x3 == frame2.startPos.x
      z3 == frame2.startPos.z
      x4 == frame2.endPos.x
      z4 == frame2.endPos.z
      denom == QSub(QMul(QSub(x1, x2), QSub(z3, z4)), QMul(QSub(z1, z2), QSub(x3, x4)))
  IN  IF QLt(QI(-1), denom) /\ QLt(denom, QI(1)) THEN Null
      ELSE LET t == QDiv(QSub(QMul(QSub(x1, x3), QSub(z3, z4)),
                              QMul(QSub(z1, z3), QSub(x3, x4))), denom)
               u == QNeg(QDiv(QSub(QMul(QSub(x1, x2), QSub(z1, z3)),
                                   QMul(QSub(z1, z2), QSub(x1, x3))), denom))
           IN  IF QLeq(QI(0), t) /\ QLeq(t, QI(1)) /\ QLeq(QI(0), u) /\ QLeq(u, QI(1))
               THEN Some(Vec(QAdd(x1, QMul(t, QSub(x2, x1))),
                             QAdd(frame1.startPos.y,
                                  QMul(t, QSub(frame1.endPos.y, frame1.startPos.y))),
                             QAdd(z1, QMul(t, QSub(z2, z1)))))
               ELSE Null

IntersectionOf(frames, i, j, cursor) ==
  LET intersection == FindLineIntersection(frames[i], frames[j])
  IN  IF intersection = Null THEN << >>
      ELSE << SnapResult("intersection", Val(intersection), Null, cursor) >>

FindIntersectionSnaps(frames, cursor) ==
  Concat([i \in 1..Len(frames) |->
            Concat([k \in 1..(Len(frames) - i) |-> IntersectionOf(frames, i, i + k, cursor)])])

\* snap.distance <= this.settings.threshold, on the squares
WithinThreshold(snap, threshold) ==
  /\ ~IsNaN(snap.distance)
  /\ QLeq(QI(0), threshold)
  /\ QLeq(snap.distance, QMul(threshold, threshold))

\* variant: the threshold filter left out
ValidSnaps_NoFilter(candidates, threshold) == candidates

ValidSnaps(candidates, threshold) ==
  SelectSeq(candidates, LAMBDA snap : WithinThreshold(snap, threshold))

\* Array.prototype.sort with (a, b) => a.distance - b.distance: stable, ascending
RECURSIVE InsertSorted(_, _)
InsertSorted(sorted, snap) ==
  IF sorted = << >> THEN << snap >>
  ELSE IF QLt(snap.distance, Head(sorted).distance)
       THEN << snap >> \o sorted
       ELSE << Head(sorted) >> \o InsertSorted(Tail(sorted), snap)

\* variant: the sort left out
SortByDistance_Unsorted(snaps) == snaps

RECURSIVE SortByDistance(_)
SortByDistance(snaps) ==
  IF snaps = << >> THEN << >>
  ELSE InsertSorted(SortByDistance(SubSeq(snaps, 1, Len(snaps) - 1)), snaps[Len(snaps)])

\* variant: the grid candidate pushed first
Candidates_GridFirst(settings, nodes, frames, cursor) ==
     (IF settings.activeSnaps.grid THEN << FindGridSnap(settings, cursor) >> ELSE << >>)
  \o (IF settings.activeSnaps.node THEN FindNodeSnaps(nodes, cursor) ELSE << >>)
  \o (IF settings.activeSnaps.endpoint THEN FindEndpointSnaps(frames, cursor) ELSE << >>)
  \o (IF settings.activeSnaps.midpoint THEN FindMidpointSnaps(frames, cursor) ELSE << >>)
  \o (IF settings.activeSnaps.perpendicular THEN FindPerpendicularSnaps(frames, cursor)
      ELSE << >>)
  \o (IF settings.activeSnaps.intersection THEN FindIntersectionSnaps(frames, cursor)
      ELSE << >>)

Candidates(settings, nodes, frames, cursor) ==
     (IF settings.activeSnaps.node THEN FindNodeSnaps(nodes, cursor) ELSE << >>)
  \o (IF settings.activeSnaps.endpoint THEN FindEndpointSnaps(frames, cursor) ELSE << >>)
  \o (IF settings.activeSnaps.midpoint THEN FindMidpointSnaps(frames, cursor) ELSE << >>)
  \o (IF settings.activeSnaps.grid THEN << FindGridSnap(settings, cursor) >> ELSE << >>)
  \o (IF settings.activeSnaps.perpendicular THEN FindPerpendicularSnaps(frames, cursor)
      ELSE << >>)
  \o (IF settings.activeSnaps.intersection THEN FindIntersectionSnaps(frames, cursor)
      ELSE << >>)

\* variant: the enabled switch not consulted
FindSnapPoint_IgnoreEnabled(settings, nodes, frames, cursor) ==
  LET validSnaps == ValidSnaps(Candidates(settings, nodes, frames, cursor),
                               settings.threshold)
  IN  IF Len(validSnaps) = 0 THEN Null
      ELSE Some(SortByDistance(validSnaps)[1])

FindSnapPoint(settings, nodes, frames, cursor) ==
  IF ~settings.enabled THEN Null
  ELSE LET validSnaps == ValidSnaps(Candidates(settings, nodes, frames, cursor),
                                    settings.threshold)
       IN  IF Len(validSnaps) = 0 THEN Null
           ELSE Some(SortByDistance(validSnaps)[1])

----------------------------------------------------------------------------
(* State *)

VARIABLES
  projectId,        \* store: current project id or Null
  nodes,            \* store: sequence of NodeResponse [id, x, y, z] (structural)
  frames,           \* store: sequence of FrameResponse [id, node_i_id, node_j_id]
  error,            \* store: error message or Null
  snapSettings,     \* store: SnapSettings
  activeSnapPoint,  \* store: SnapResult or Null
  drawingMode,      \* store: DrawingModeState
  svc,              \* the SnapService singleton: [settings, nodes, frames]
  commits,          \* completeDrawing invocations, in call order, with their locals
  backend,          \* persistence collaborator: the ids it assigns next
  creating,         \* createProject calls awaiting their response
  nPicks,           \* history: number of clicks handleClick has acted on
  clicked,          \* history: the click the latest step acted on, or Null
  snapCall,         \* history: latest direct findSnapPoint call since the settings changed
  event,            \* history: the handler the latest step ran and the session it found
  mode,             \* store: application mode, "draw" or "analysis"
  isAnalyzing,      \* store: a runAnalysisAndSwitchMode call awaits its response
  deleting,         \* deleteNode calls awaiting their response: the node ids
  session,          \* the DrawingSession of a DrawingService instance
  defaultSettings,  \* the DEFAULT_SNAP_SETTINGS object of the SnapService module
  instance          \* snapServiceInstance: "none", or its settings are the "default"
                    \* object itself, or an object of its "own"

vars == << projectId, nodes, frames, error, snapSettings, activeSnapPoint, drawingMode,
           svc, commits, backend, creating, nPicks, clicked, snapCall, event,
           mode, isAnalyzing, deleting, session, defaultSettings, instance >>

storeVars == << projectId, nodes, frames, error, snapSettings, activeSnapPoint, drawingMode >>

\* what the snap and drawing handlers of the viewport neither read nor write
otherVars == << mode, isAnalyzing, deleting, session, defaultSettings >>
extraVars == << otherVars, instance >>

----------------------------------------------------------------------------
(* Bounds and input sets *)

\* number of points of the sample model loaded in a snap-only run
MaxModelNodes == 5

\* structural positions of the sample model; ids follow the position in the list
SamplePositions ==
  << VI(0, 0, 0), VI(500, 0, 0), VI(250, 200, 0), VI(250, -200, 300), VI(100, 100, 0),
     VI(400, 100, 0) >>

SampleNodes(k) ==
  [i \in 1..k |-> [id |-> i, x |-> SamplePositions[i].x, y |-> SamplePositions[i].y,
                   z |-> SamplePositions[i].z]]

\* frames 10 (1-2), 11 (3-4, crossing frame 10 and sloping), 12 (2-5, crossing frame 11),
\* the zero-length 14 (3-3) and 15 (5-3, whose line meets that of frame 10 outside both)
SampleFrames(k) ==
  SelectSeq(<< [id |-> 10, node_i_id |-> 1, node_j_id |-> 2],
               [id |-> 11, node_i_id |-> 3, node_j_id |-> 4],
               [id |-> 12, node_i_id |-> 2, node_j_id |-> 5],
               [id |-> 14, node_i_id |-> 3, node_j_id |-> 3],
               [id |-> 15, node_i_id |-> 5, node_j_id |-> 3] >>,
            LAMBDA f : f.node_i_id <= k /\ f.node_j_id <= k)

\* query positions handed to findSnapPoint (render coordinates)
SnapCursors ==
  {VI(0, 0, 0), VI(130, 0, 0), VI(240, 5, 0), VI(252, 0, 3), VI(250, 0, -60),
   VI(130, 5, -150), VI(560, 0, 40), VI(275, 0, 0), VI(50, 0, 0), VI(300, 0, 50)}

ThresholdChoices == {QI(50), QI(300), QI(0), QI(-50)}
GridSpacingChoices == {QI(100), QI(50), QI(0)}

ActiveSnapsOf(on) == [t \in SnapTypes |-> t \in on]

ActiveSnapsChoices ==
  {ActiveSnapsOf(on) : on \in {{"endpoint", "midpoint", "node", "grid"}, SnapTypes,
                               {"grid"}, {"node", "endpoint"}, {"midpoint"},
                               {"perpendicular", "intersection"}}}

----------------------------------------------------------------------------
(* SnapService state and the SnapDetector effects that feed it *)

\* { ...this.settings, ...settings }
UpdateSettings(settings, partial) ==
  [k \in DOMAIN settings |-> IF k \in DOMAIN partial THEN partial[k] ELSE settings[k]]

\* nodes.find((n) => n.id === id): the first match, or Null
RECURSIVE FindNode(_, _)
FindNode(ns, id) ==
  IF ns = << >> THEN Null
  ELSE IF Head(ns).id = id THEN Some(Head(ns)) ELSE FindNode(Tail(ns), id)

ToNodeData(ns) == [i \in 1..Len(ns) |-> [id |-> ns[i].id, position |-> ToRender(ns[i])]]

FrameDataOf(ns, frame) ==
  LET nodeI == FindNode(ns, frame.node_i_id)
      nodeJ == FindNode(ns, frame.node_j_id)
  IN  IF nodeI = Null \/ nodeJ = Null THEN << >>
      ELSE << [id |-> frame.id, startPos |-> ToRender(Val(nodeI)),
               endPos |-> ToRender(Val(nodeJ))] >>

ToFrameData(ns, fs) == Concat([i \in 1..Len(fs) |-> FrameDataOf(ns, fs[i])])

\* new SnapService(), then the two effects of SnapDetector
SnapServiceFor(settings, ns, fs) ==
  [settings |-> UpdateSettings(DEFAULT_SNAP_SETTINGS, settings),
   nodes |-> ToNodeData(ns), frames |-> ToFrameData(ns, fs)]

CallOf(service, cursor) ==
  [cursor |-> cursor, settings |-> service.settings,
   result |-> FindSnapPoint(service.settings, service.nodes, service.frames, cursor)]

INITIAL_DRAWING_MODE ==
  [isActive |-> FALSE, state |-> "idle", startPoint |-> Null, startNodeId |-> Null,
   currentPoint |-> Null, config |-> [continuousMode |-> TRUE]]

\* services/DrawingService.ts
INITIAL_DRAWING_SESSION ==
  [state |-> "idle", startPoint |-> Null, startNodeId |-> Null, currentPoint |-> Null,
   config |-> [continuousMode |-> TRUE]]

\* draw mode, nothing awaited, a fresh DrawingService, and the SnapService singleton
\* after SnapDetector has mounted (its settings effect has replaced this.settings)
AppInit ==
  /\ mode = "draw"
  /\ isAnalyzing = FALSE
  /\ deleting = {}
  /\ session = INITIAL_DRAWING_SESSION
  /\ defaultSettings = DEFAULT_SNAP_SETTINGS
  /\ instance = "own"

\* history: a handler has run, finding drawing mode on or off and this session state
EventOf(handler) ==
  Some([handler |-> handler, isActive |-> drawingMode.isActive, state |-> drawingMode.state])

\* the store as created, and nothing in flight
StoreInit ==
  /\ projectId = Null
  /\ nodes = << >>
  /\ frames = << >>
  /\ error = Null
  /\ snapSettings = DEFAULT_SNAP_SETTINGS
  /\ activeSnapPoint = Null
  /\ drawingMode = INITIAL_DRAWING_MODE
  /\ commits = << >>
  /\ backend = [projectId |-> 1, nodeId |-> 1, frameId |-> 1]
  /\ creating = 0
  /\ nPicks = 0
  /\ clicked = Null
  /\ snapCall = Null
  /\ event = Null
  /\ AppInit

----------------------------------------------------------------------------
(* SnapSpec: the resolver alone, over a loaded sample model *)

SnapInit ==
  \E k \in 0..MaxModelNodes :
    /\ projectId = Some(1)
    /\ nodes = SampleNodes(k)
    /\ frames = SampleFrames(k)
    /\ error = Null
    /\ snapSettings = DEFAULT_SNAP_SETTINGS
    /\ activeSnapPoint = Null
    /\ drawingMode = INITIAL_DRAWING_MODE
    /\ svc = SnapServiceFor(snapSettings, nodes, frames)
    /\ commits = << >>
    /\ backend = [projectId |-> 2, nodeId |-> k + 1, frameId |-> 13]
    /\ creating = 0
    /\ nPicks = 0
    /\ clicked = Null
    /\ snapCall = Null
    /\ event = Null
    /\ AppInit

\* variant: the midpoint computed in place, in the frame's start position
SvcFindSnapPoint_MidpointInPlace(cursor) ==
  /\ snapCall' = Some(CallOf(svc, cursor))
  /\ event' = EventOf("findSnapPoint")
  /\ UNCHANGED extraVars
  /\ svc' = IF svc.settings.enabled /\ svc.settings.activeSnaps.midpoint
            THEN [svc EXCEPT !.frames =
                    [i \in 1..Len(svc.frames) |->
                       [svc.frames[i] EXCEPT !.startPos =
                          VScale(VAdd(svc.frames[i].startPos, svc.frames[i].endPos),
                                 Q(1, 2))]]]
            ELSE svc
  /\ UNCHANGED << storeVars, commits, backend, creating, nPicks, clicked >>

\* snapService.findSnapPoint(cursor)
SvcFindSnapPoint(cursor) ==
  /\ snapCall' = Some(CallOf(svc, cursor))
  /\ event' = EventOf("findSnapPoint")
  /\ UNCHANGED extraVars
  /\ UNCHANGED << storeVars, svc, commits, backend, creating, nPicks, clicked >>

\* snapService.updateSettings(partial)
SvcUpdateSettings(partial) ==
  /\ svc' = [svc EXCEPT !.settings = UpdateSettings(svc.settings, partial)]
  /\ snapCall' = Null
  /\ event' = EventOf("updateSettings")
  /\ instance' = "own"
  /\ UNCHANGED otherVars
  /\ UNCHANGED << storeVars, commits, backend, creating, nPicks, clicked >>

SnapNext ==
  \/ \E cursor \in SnapCursors : SvcFindSnapPoint(cursor)
  \/ \E t \in ThresholdChoices : SvcUpdateSettings([threshold |-> t])
  \/ \E g \in GridSpacingChoices : SvcUpdateSettings([gridSpacing |-> g])
  \/ \E a \in ActiveSnapsChoices : SvcUpdateSettings([activeSnaps |-> a])
  \/ \E e \in BOOLEAN : SvcUpdateSettings([enabled |-> e])

SnapSpec == SnapInit /\ [][SnapNext]_vars

----------------------------------------------------------------------------
(* The store's drawing actions (store/useStore.ts) *)

\* clicks a drawing run may make
MaxPicks == 2

\* ground-plane hits of the pointer ray (render coordinates, y = 0)
Hits == {VI(130, 0, -100), VI(150, 0, -150)}

HitChoices == {Null} \cup {Some(h) : h \in Hits}

\* variant: switching off keeps the anchor and the live point
ToggleDrawingModeOf_KeepAnchor(dm) ==
  IF dm.isActive
  THEN [dm EXCEPT !.isActive = FALSE, !.state = "idle"]
  ELSE [dm EXCEPT !.isActive = TRUE, !.state = "idle"]

ToggleDrawingModeOf(dm) ==
  IF dm.isActive
  THEN [dm EXCEPT !.isActive = FALSE, !.state = "idle", !.startPoint = Null,
                  !.startNodeId = Null, !.currentPoint = Null]
  ELSE [dm EXCEPT !.isActive = TRUE, !.state = "idle"]

\* variant: the anchor recorded without leaving idle
StartDrawingOf_StaysIdle(dm, point, nodeId) ==
  [dm EXCEPT !.startPoint = Some(point), !.startNodeId = nodeId, !.currentPoint = Some(point)]

StartDrawingOf(dm, point, nodeId) ==
  [dm EXCEPT !.state = "drawing", !.startPoint = Some(point), !.startNodeId = nodeId,
             !.currentPoint = Some(point)]

\* variant: the live point written whatever the state
UpdateDrawingPointOf_Unguarded(dm, point) == [dm EXCEPT !.currentPoint = Some(point)]

UpdateDrawingPointOf(dm, point) ==
  IF dm.state # "drawing" THEN dm ELSE [dm EXCEPT !.currentPoint = Some(point)]

CancelDrawingOf(dm) ==
  [dm EXCEPT !.state = "idle", !.startPoint = Null, !.startNodeId = Null,
             !.currentPoint = Null]

\* variant: the continuous re-arm also writes the state
FinishDrawingOf_WritesState(dm, c) ==
  IF c.continuousMode
  THEN [dm EXCEPT !.state = "drawing", !.startPoint = Some(c.endPoint),
                  !.startNodeId = c.finalEndNodeId, !.currentPoint = Some(c.endPoint)]
  ELSE [dm EXCEPT !.state = "idle", !.startPoint = Null, !.startNodeId = Null,
                  !.currentPoint = Null]

\* the tail of completeDrawing's try block, applied to the drawingMode of that moment
FinishDrawingOf(dm, c) ==
  IF c.continuousMode
  THEN [dm EXCEPT !.startPoint = Some(c.endPoint), !.startNodeId = c.finalEndNodeId,
                  !.currentPoint = Some(c.endPoint)]
  ELSE [dm EXCEPT !.state = "idle", !.startPoint = Null, !.startNodeId = Null,
                  !.currentPoint = Null]

\* completeDrawing's position: the creation request it awaits next
StageAfterStart(c) == IF c.finalEndNodeId = Null THEN "createEnd" ELSE "createFrame"
\* variant: the start point created even when the anchor carries an id
FirstStage_AlwaysCreate(c) == "createStart"

FirstStage(c) == IF c.startNodeId = Null THEN "createStart" ELSE StageAfterStart(c)

\* the request a commit sends on entering its stage
RequestOf(c) ==
  [kind |-> IF c.stage = "createFrame" THEN "createElement" ELSE "createPoint",
   position |-> IF c.stage = "createStart" THEN Some(c.startPoint)
                ELSE IF c.stage = "createEnd" THEN Some(c.endPoint) ELSE Null,
   node_i_id |-> IF c.stage = "createFrame" THEN c.startNodeId ELSE Null,
   node_j_id |-> IF c.stage = "createFrame" THEN c.finalEndNodeId ELSE Null]

\* enter a stage: the request goes out and is recorded in the commit's history
Enter(c, stage) ==
  LET at == [c EXCEPT !.stage = stage]
  IN  [at EXCEPT !.sent = Append(@, RequestOf(at))]

NodeResponse(id, point) == [id |-> id, x |-> point.x, y |-> point.y, z |-> point.z]

Pending(k) == k \in 1..Len(commits) /\ commits[k].status = "pending"

\* history only: every commit pending now was started before a cancel or a toggle-off
MarkCancelled(cs) ==
  [k \in 1..Len(cs) |-> IF cs[k].status = "pending" THEN [cs[k] EXCEPT !.cancelled = TRUE]
                        ELSE cs[k]]

\* history: all the creation requests issued so far, commit by commit
Requests == Concat([k \in 1..Len(commits) |-> commits[k].sent])

----------------------------------------------------------------------------
(* Events *)

\* createProject, up to its await (a session creates its project once)
CreateProject ==
  /\ projectId = Null
  /\ creating = 0
  /\ creating' = creating + 1
  /\ error' = Null
  /\ clicked' = Null
  /\ event' = EventOf("createProject")
  /\ UNCHANGED extraVars
  /\ UNCHANGED << projectId, nodes, frames, snapSettings, activeSnapPoint, drawingMode,
                  svc, commits, backend, nPicks, snapCall >>

\* createProject, after its await: the project replaces the model, or the call failed
CreateProjectResponse(ok) ==
  /\ creating > 0
  /\ creating' = creating - 1
  /\ IF ok
     THEN /\ projectId' = Some(backend.projectId)
          /\ backend' = [backend EXCEPT !.projectId = @ + 1]
          /\ nodes' = << >>
          /\ frames' = << >>
          /\ error' = error
     ELSE /\ error' = Some("Failed to create project")
          /\ UNCHANGED << projectId, backend, nodes, frames >>
  /\ clicked' = Null
  /\ event' = EventOf("createProject")
  /\ UNCHANGED extraVars
  /\ UNCHANGED << snapSettings, activeSnapPoint, drawingMode, svc, commits, nPicks,
                  snapCall >>

ToggleDrawingMode ==
  /\ drawingMode' = ToggleDrawingModeOf(drawingMode)
  /\ commits' = IF drawingMode.isActive THEN MarkCancelled(commits) ELSE commits
  /\ clicked' = Null
  /\ event' = EventOf("toggleDrawingMode")
  /\ UNCHANGED extraVars
  /\ UNCHANGED << projectId, nodes, frames, error, snapSettings, activeSnapPoint, svc,
                  backend, creating, nPicks, snapCall >>

CancelDrawing ==
  /\ drawingMode' = CancelDrawingOf(drawingMode)
  /\ commits' = MarkCancelled(commits)
  /\ clicked' = Null
  /\ event' = EventOf("cancelDrawing")
  /\ UNCHANGED extraVars
  /\ UNCHANGED << projectId, nodes, frames, error, snapSettings, activeSnapPoint, svc,
                  backend, creating, nPicks, snapCall >>

SetDrawingConfig(continuous) ==
  /\ drawingMode' = [drawingMode EXCEPT !.config.continuousMode = continuous]
  /\ clicked' = Null
  /\ event' = EventOf("setDrawingConfig")
  /\ UNCHANGED extraVars
  /\ UNCHANGED << projectId, nodes, frames, error, snapSettings, activeSnapPoint, svc,
                  commits, backend, creating, nPicks, snapCall >>

ToggleSnapType(type) ==
  /\ snapSettings' = [snapSettings EXCEPT !.activeSnaps[type] = ~@]
  /\ clicked' = Null
  /\ event' = EventOf("toggleSnapType")
  /\ UNCHANGED extraVars
  /\ UNCHANGED << projectId, nodes, frames, error, activeSnapPoint, drawingMode, svc,
                  commits, backend, creating, nPicks, snapCall >>

\* variant: the model effect replaces the points and leaves the elements
SnapDetectorEffects_NodesOnly ==
  /\ svc' = [settings |-> UpdateSettings(svc.settings, snapSettings),
             nodes |-> ToNodeData(nodes), frames |-> svc.frames]
  /\ svc' # svc
  /\ clicked' = Null
  /\ event' = EventOf("useEffect")
  /\ instance' = "own"
  /\ UNCHANGED otherVars
  /\ UNCHANGED << storeVars, commits, backend, creating, nPicks, snapCall >>

\* SnapDetector's two effects, run after a render in which their inputs changed
SnapDetectorEffects ==
  /\ svc' = [settings |-> UpdateSettings(svc.settings, snapSettings),
             nodes |-> ToNodeData(nodes), frames |-> ToFrameData(nodes, frames)]
  /\ svc' # svc
  /\ clicked' = Null
  /\ event' = EventOf("useEffect")
  /\ instance' = "own"
  /\ UNCHANGED otherVars
  /\ UNCHANGED << storeVars, commits, backend, creating, nPicks, snapCall >>

\* SnapDetector's useFrame callback; hit is the ray's ground-plane point or Null
UseFrame(hit) ==
  /\ IF hit = Null
     THEN /\ activeSnapPoint' = Null
          /\ UNCHANGED drawingMode
     ELSE /\ activeSnapPoint' = IF snapSettings.enabled
                                THEN CallOf(svc, Val(hit)).result
                                ELSE Null
          /\ drawingMode' =
               IF drawingMode.isActive /\ drawingMode.state = "drawing"
               THEN UpdateDrawingPointOf(drawingMode, ToStructural(Val(hit)))
               ELSE drawingMode
  /\ clicked' = Null
  /\ event' = EventOf("useFrame")
  /\ UNCHANGED extraVars
  /\ UNCHANGED << projectId, nodes, frames, error, snapSettings, svc, commits, backend,
                  creating, nPicks, snapCall >>

\* handleClick's clickPoint (before conversion) and nodeId
ClickRender(hit) ==
  IF activeSnapPoint # Null THEN Val(activeSnapPoint).position ELSE hit

\* variant: the snap's elementId taken whatever the snap's type
ClickNodeId_AnyType ==
  IF activeSnapPoint # Null /\ Val(activeSnapPoint).elementId # Null
  THEN Val(activeSnapPoint).elementId
  ELSE Null

ClickNodeId ==
  IF /\ activeSnapPoint # Null
     /\ Val(activeSnapPoint).type = "node"
     /\ Val(activeSnapPoint).elementId # Null
     /\ Val(activeSnapPoint).elementId # Some(0)
  THEN Val(activeSnapPoint).elementId
  ELSE Null

\* PreviewLine (components/DrawingMode.tsx): the two render positions it draws, or Null
PreviewLine ==
  LET endPosition == IF activeSnapPoint # Null THEN Some(Val(activeSnapPoint).position)
                     ELSE drawingMode.currentPoint
  IN  IF \/ ~drawingMode.isActive
         \/ drawingMode.state # "drawing"
         \/ drawingMode.startPoint = Null
         \/ endPosition = Null
      THEN Null
      ELSE LET startPoint == Val(drawingMode.startPoint)
           IN  Some([start |-> Vec(startPoint.x, startPoint.z, QNeg(startPoint.y)),
                     end |-> Vec(Val(endPosition).x, Val(endPosition).y, Val(endPosition).z)])

\* completeDrawing's locals right after its guard, with the first request sent
NewCommit(endPoint, endNodeId) ==
  LET c == [projectId |-> Val(projectId),
            startPoint |-> Val(drawingMode.startPoint),
            startNodeId |-> drawingMode.startNodeId,
            anchorNodeId |-> drawingMode.startNodeId,
            endPoint |-> endPoint,
            endNodeId |-> endNodeId,
            finalEndNodeId |-> endNodeId,
            continuousMode |-> drawingMode.config.continuousMode,
            stage |-> "createStart", status |-> "pending", sent |-> << >>,
            cancelled |-> FALSE, created |-> {}]
  IN  Enter(c, FirstStage(c))

\* completeDrawing, up to its first await
CompleteDrawing(endPoint, endNodeId) ==
  IF projectId = Null \/ drawingMode.state # "drawing" \/ drawingMode.startPoint = Null
  THEN commits' = commits
  ELSE commits' = Append(commits, NewCommit(endPoint, endNodeId))

\* variant: drawing mode not consulted
ClickIgnored_ModeUnchecked(hit) == hit = Null

\* handleClick's two early returns
ClickIgnored(hit) == ~drawingMode.isActive \/ hit = Null

\* DrawingClickHandler.handleClick; hit is the ray's ground-plane point or Null
HandleClick(hit) ==
  IF ClickIgnored(hit)
  THEN /\ clicked' = Null
       /\ event' = EventOf("handleClick")
       /\ UNCHANGED extraVars
       /\ UNCHANGED << storeVars, svc, commits, backend, creating, nPicks, snapCall >>
  ELSE LET clickPoint == ToStructural(ClickRender(Val(hit)))
           nodeId == ClickNodeId
       IN  /\ nPicks' = nPicks + 1
           /\ event' = EventOf("handleClick")
           /\ UNCHANGED extraVars
           /\ clicked' = Some([render |-> ClickRender(Val(hit)), nodeId |-> nodeId,
                               from |-> drawingMode.state])
           /\ IF drawingMode.state = "idle"
              THEN /\ drawingMode' = StartDrawingOf(drawingMode, clickPoint, nodeId)
                   /\ commits' = commits
              ELSE /\ CompleteDrawing(clickPoint, nodeId)
                   /\ drawingMode' = drawingMode
           /\ UNCHANGED << projectId, nodes, frames, error, snapSettings, activeSnapPoint,
                           svc, backend, creating, snapCall >>

\* completeDrawing after an await that resolved: the response is stored and the
\* function runs on to its next await, or to its end
CommitResolved(k) ==
  /\ Pending(k)
  /\ LET c == commits[k]
     IN  IF c.stage = "createFrame"
         THEN /\ frames' = Append(frames, [id |-> backend.frameId,
                                           node_i_id |-> Val(c.startNodeId),
                                           node_j_id |-> Val(c.finalEndNodeId)])
              /\ backend' = [backend EXCEPT !.frameId = @ + 1]
              /\ drawingMode' = FinishDrawingOf(drawingMode, c)
              /\ commits' = [commits EXCEPT ![k].status = "done"]
              /\ nodes' = nodes
         ELSE LET id == backend.nodeId
                  got == IF c.stage = "createStart"
                         THEN [c EXCEPT !.startNodeId = Some(id), !.created = @ \cup {id}]
                         ELSE [c EXCEPT !.finalEndNodeId = Some(id), !.created = @ \cup {id}]
              IN  /\ nodes' = Append(nodes, NodeResponse(id, IF c.stage = "createStart"
                                                                THEN c.startPoint
                                                                ELSE c.endPoint))
                  /\ backend' = [backend EXCEPT !.nodeId = @ + 1]
                  /\ commits' = [commits EXCEPT ![k] =
                                   Enter(got, IF c.stage = "createStart"
                                              THEN StageAfterStart(got)
                                              ELSE "createFrame")]
                  /\ UNCHANGED << frames, drawingMode >>
  /\ clicked' = Null
  /\ event' = EventOf("completeDrawing")
  /\ UNCHANGED extraVars
  /\ UNCHANGED << projectId, error, snapSettings, activeSnapPoint, svc, creating, nPicks,
                  snapCall >>

\* variant: a catch block that also takes the commit's points out of the list
CommitRejected_Rollback(k) ==
  /\ Pending(k)
  /\ error' = Some("Failed to create frame")
  /\ nodes' = SelectSeq(nodes, LAMBDA n : n.id \notin commits[k].created)
  /\ commits' = [commits EXCEPT ![k].status = "failed"]
  /\ clicked' = Null
  /\ event' = EventOf("completeDrawing")
  /\ UNCHANGED extraVars
  /\ UNCHANGED << projectId, frames, snapSettings, activeSnapPoint, drawingMode,
                  svc, backend, creating, nPicks, snapCall >>

\* completeDrawing after an await that rejected: the catch block
CommitRejected(k) ==
  /\ Pending(k)
  /\ error' = Some("Failed to create frame")
  /\ commits' = [commits EXCEPT ![k].status = "failed"]
  /\ clicked' = Null
  /\ event' = EventOf("completeDrawing")
  /\ UNCHANGED extraVars
  /\ UNCHANGED << projectId, nodes, frames, snapSettings, activeSnapPoint, drawingMode,
                  svc, backend, creating, nPicks, snapCall >>

Init ==
  /\ StoreInit
  /\ svc = SnapServiceFor(snapSettings, nodes, frames)

Next ==
  \/ CreateProject
  \/ \E ok \in BOOLEAN : CreateProjectResponse(ok)
  \/ ToggleDrawingMode
  \/ CancelDrawing
  \/ \E continuous \in BOOLEAN : SetDrawingConfig(continuous)
  \/ SnapDetectorEffects
  \/ \E hit \in HitChoices : UseFrame(hit)
  \/ \E hit \in HitChoices : nPicks < MaxPicks /\ HandleClick(hit)
  \/ \E k \in 1..Len(commits) : CommitResolved(k)
  \/ \E k \in 1..Len(commits) : CommitRejected(k)

Spec == Init /\ [][Next]_vars

----------------------------------------------------------------------------
(* ChainSpec: a polyline drawn in continuous mode, project open, drawing on *)

\* clicks of one polyline
MaxChainPicks == 3

\* the polyline's ground-plane hits, in the order they are clicked
ChainHits == << VI(130, 0, -100), VI(320, 0, -110), VI(300, 0, -290) >>

ChainInit ==
  /\ projectId = Some(1)
  /\ nodes = << >>
  /\ frames = << >>
  /\ error = Null
  /\ snapSettings = DEFAULT_SNAP_SETTINGS
  /\ activeSnapPoint = Null
  /\ drawingMode = ToggleDrawingModeOf(INITIAL_DRAWING_MODE)
  /\ svc = SnapServiceFor(snapSettings, nodes, frames)
  /\ commits = << >>
  /\ backend = [projectId |-> 2, nodeId |-> 1, frameId |-> 1]
  /\ creating = 0
  /\ nPicks = 0
  /\ clicked = Null
  /\ snapCall = Null
  /\ event = Null
  /\ AppInit

\* the pointer is over the next vertex of the polyline, or off the ground plane
ChainHitChoices == {Null} \cup {Some(ChainHits[i]) : i \in {nPicks + 1} \cap DOMAIN ChainHits}

ChainNext ==
  \/ SnapDetectorEffects
  \/ \E hit \in ChainHitChoices : UseFrame(hit)
  \/ \E hit \in ChainHitChoices : nPicks < MaxChainPicks /\ HandleClick(hit)
  \/ \E k \in 1..Len(commits) : CommitResolved(k)
  \/ \E k \in 1..Len(commits) : CommitRejected(k)

ChainSpec == ChainInit /\ [][ChainNext]_vars

----------------------------------------------------------------------------
(* EditSpec: drawing over a loaded project (points 1 and 2, element 10), drawing on *)

\* clicks of one editing run
MaxEditPicks == 2

\* ground-plane hits next to point 1 and next to point 2; a click made while no snap
\* is active is a free pick at the hit itself
EditHits == {VI(10, 0, 0), VI(480, 0, 20)}

EditHitChoices == {Null} \cup {Some(h) : h \in EditHits}

\* the store after loadProject has resolved and toggleDrawingMode has run
EditInit ==
  /\ projectId = Some(1)
  /\ nodes = SampleNodes(2)
  /\ frames = SampleFrames(2)
  /\ error = Null
  /\ snapSettings = DEFAULT_SNAP_SETTINGS
  /\ activeSnapPoint = Null
  /\ drawingMode = ToggleDrawingModeOf(INITIAL_DRAWING_MODE)
  /\ svc = SnapServiceFor(snapSettings, nodes, frames)
  /\ commits = << >>
  /\ backend = [projectId |-> 2, nodeId |-> 3, frameId |-> 11]
  /\ creating = 0
  /\ nPicks = 0
  /\ clicked = Null
  /\ snapCall = Null
  /\ event = Null
  /\ AppInit

EditNext ==
  \/ ToggleSnapType("node")
  \/ SnapDetectorEffects
  \/ \E hit \in EditHitChoices : UseFrame(hit)
  \/ \E hit \in EditHitChoices : nPicks < MaxEditPicks /\ HandleClick(hit)
  \/ \E k \in 1..Len(commits) : CommitResolved(k)
  \/ \E k \in 1..Len(commits) : CommitRejected(k)

EditSpec == EditInit /\ [][EditNext]_vars

----------------------------------------------------------------------------
(* AppSpec: the loaded project of EditSpec with analysis runs *)

\* clicks of one run
MaxAppPicks == 2

serviceVars == << session, defaultSettings, instance >>

\* App's handleKeyDown: 'd' toggles drawing mode in draw mode only, Escape cancels
\* while drawing mode is on (the toolbar's draw button is rendered in draw mode only)
HandleKeyDown(key) ==
  \/ key = "d" /\ mode = "draw" /\ ToggleDrawingMode
  \/ key = "Escape" /\ drawingMode.isActive /\ CancelDrawing

\* the toolbar's analysis button: canRunAnalysis and not isAnalyzing (the sample
\* project has a supported point)
CanRunAnalysis == Len(nodes) >= 2 /\ Len(frames) >= 1 /\ ~isAnalyzing

\* runAnalysisAndSwitchMode, up to its await
RunAnalysisAndSwitchMode ==
  /\ CanRunAnalysis
  /\ projectId # Null
  /\ isAnalyzing' = TRUE
  /\ error' = Null
  /\ clicked' = Null
  /\ event' = EventOf("runAnalysisAndSwitchMode")
  /\ UNCHANGED << mode, deleting, serviceVars >>
  /\ UNCHANGED << projectId, nodes, frames, snapSettings, activeSnapPoint, drawingMode,
                  svc, commits, backend, creating, nPicks, snapCall >>

\* runAnalysisAndSwitchMode, after its await
RunAnalysisResponse(ok) ==
  /\ isAnalyzing
  /\ isAnalyzing' = FALSE
  /\ IF ok
     THEN mode' = "analysis" /\ error' = error
     ELSE mode' = mode /\ error' = Some("Analysis failed")
  /\ clicked' = Null
  /\ event' = EventOf("runAnalysisAndSwitchMode")
  /\ UNCHANGED << deleting, serviceVars >>
  /\ UNCHANGED << projectId, nodes, frames, snapSettings, activeSnapPoint, drawingMode,
                  svc, commits, backend, creating, nPicks, snapCall >>

SwitchToDrawMode ==
  /\ mode' = "draw"
  /\ clicked' = Null
  /\ event' = EventOf("switchToDrawMode")
  /\ UNCHANGED << isAnalyzing, deleting, serviceVars >>
  /\ UNCHANGED << storeVars, svc, commits, backend, creating, nPicks, snapCall >>

\* deleteNode, up to its await (the button deletes the selected point, one request
\* per point)
DeleteNode(nodeId) ==
  /\ projectId # Null
  /\ mode # "analysis"
  /\ \E i \in 1..Len(nodes) : nodes[i].id = nodeId
  /\ nodeId \notin deleting
  /\ deleting' = deleting \cup {nodeId}
  /\ clicked' = Null
  /\ event' = EventOf("deleteNode")
  /\ UNCHANGED << mode, isAnalyzing, serviceVars >>
  /\ UNCHANGED << storeVars, svc, commits, backend, creating, nPicks, snapCall >>

\* deleteNode, after its await: the point leaves the list, or the catch block
DeleteNodeResponse(nodeId, ok) ==
  /\ nodeId \in deleting
  /\ deleting' = deleting \ {nodeId}
  /\ IF ok
     THEN nodes' = SelectSeq(nodes, LAMBDA n : n.id # nodeId) /\ error' = error
     ELSE nodes' = nodes /\ error' = Some("Failed to delete node")
  /\ clicked' = Null
  /\ event' = EventOf("deleteNode")
  /\ UNCHANGED << mode, isAnalyzing, serviceVars >>
  /\ UNCHANGED << projectId, frames, snapSettings, activeSnapPoint, drawingMode,
                  svc, commits, backend, creating, nPicks, snapCall >>

AppNext ==
  \/ \E key \in {"d", "Escape"} : HandleKeyDown(key)
  \/ RunAnalysisAndSwitchMode
  \/ \E ok \in BOOLEAN : RunAnalysisResponse(ok)
  \/ SwitchToDrawMode
  \/ \E hit \in EditHitChoices : nPicks < MaxAppPicks /\ HandleClick(hit)
  \/ \E k \in 1..Len(commits) : CommitResolved(k)
  \/ \E k \in 1..Len(commits) : CommitRejected(k)

AppSpec == EditInit /\ [][AppNext]_vars

----------------------------------------------------------------------------
(* DeleteSpec: points of the loaded project deleted while a segment is drawn *)

\* clicks of one run
MaxDeletePicks == 2

\* the points the user selects and deletes: those of the loaded project
LoadedNodeIds == {n.id : n \in {SampleNodes(2)[i] : i \in 1..2}}

DeleteNext ==
  \/ \E nodeId \in LoadedNodeIds : DeleteNode(nodeId)
  \/ \E nodeId \in LoadedNodeIds, ok \in BOOLEAN : DeleteNodeResponse(nodeId, ok)
  \/ SnapDetectorEffects
  \/ \E hit \in EditHitChoices : UseFrame(hit)
  \/ \E hit \in EditHitChoices : nPicks < MaxDeletePicks /\ HandleClick(hit)
  \/ \E k \in 1..Len(commits) : CommitResolved(k)

DeleteSpec == EditInit /\ [][DeleteNext]_vars

----------------------------------------------------------------------------
(* SerialSpec: the store's drawing actions and a DrawingService driven side by side *)

\* DrawingService.startDrawing
ServiceStartDrawing(s, point, nodeId) ==
  [s EXCEPT !.state = "drawing", !.startPoint = Some(point), !.startNodeId = nodeId,
            !.currentPoint = Some(point)]

\* DrawingService.updateCurrentPoint
ServiceUpdateCurrentPoint(s, point) ==
  IF s.state # "drawing" THEN s ELSE [s EXCEPT !.currentPoint = Some(point)]

\* variant: the continuous re-arm leaves the live point where the pointer last was
ServiceCompleteDrawing_KeepsLivePoint(s, endPoint, endNodeId) ==
  IF s.state # "drawing" \/ s.startPoint = Null
  THEN s
  ELSE IF s.config.continuousMode
       THEN [s EXCEPT !.startPoint = Some(endPoint), !.startNodeId = endNodeId]
       ELSE [s EXCEPT !.state = "idle", !.startPoint = Null, !.startNodeId = Null,
                      !.currentPoint = Null]

\* DrawingService.completeDrawing: the session it leaves (the returned segment is
\* the caller's to create)
ServiceCompleteDrawing(s, endPoint, endNodeId) ==
  IF s.state # "drawing" \/ s.startPoint = Null
  THEN s
  ELSE IF s.config.continuousMode
       THEN [s EXCEPT !.startPoint = Some(endPoint), !.startNodeId = endNodeId,
                      !.currentPoint = Some(endPoint)]
       ELSE [s EXCEPT !.state = "idle", !.startPoint = Null, !.startNodeId = Null,
                      !.currentPoint = Null]

\* DrawingService.cancel
ServiceCancel(s) ==
  [s EXCEPT !.state = "idle", !.startPoint = Null, !.startNodeId = Null,
            !.currentPoint = Null]

\* DrawingService.setConfig
ServiceSetConfig(s, continuous) == [s EXCEPT !.config.continuousMode = continuous]

\* commits of one run
MaxSerialCommits == 2

\* the points handed to both sessions (structural coordinates)
SerialPoints == {ToStructural(ChainHits[i]) : i \in 1..2}

\* every creation request issued so far has been answered
Quiet == \A k \in 1..Len(commits) : commits[k].status # "pending"

\* an identity for the point: none, or the id of a point of the model
SerialNodeIds == {Null} \cup {Some(nodes[i].id) : i \in 1..Len(nodes)}

\* startDrawing on the store and on the service
BothStart(point, nodeId) ==
  /\ Quiet
  /\ drawingMode' = StartDrawingOf(drawingMode, point, nodeId)
  /\ session' = ServiceStartDrawing(session, point, nodeId)
  /\ clicked' = Null
  /\ event' = EventOf("startDrawing")
  /\ UNCHANGED << mode, isAnalyzing, deleting, defaultSettings, instance >>
  /\ UNCHANGED << projectId, nodes, frames, error, snapSettings, activeSnapPoint, svc,
                  commits, backend, creating, nPicks, snapCall >>

\* updateDrawingPoint on the store, updateCurrentPoint on the service
BothMove(point) ==
  /\ Quiet
  /\ drawingMode' = UpdateDrawingPointOf(drawingMode, point)
  /\ session' = ServiceUpdateCurrentPoint(session, point)
  /\ clicked' = Null
  /\ event' = EventOf("updateDrawingPoint")
  /\ UNCHANGED << mode, isAnalyzing, deleting, defaultSettings, instance >>
  /\ UNCHANGED << projectId, nodes, frames, error, snapSettings, activeSnapPoint, svc,
                  commits, backend, creating, nPicks, snapCall >>

\* completeDrawing on both: the service finishes at once, the store goes as far as
\* its first await
BothCommit(point, nodeId) ==
  /\ Quiet
  /\ Len(commits) < MaxSerialCommits
  /\ CompleteDrawing(point, nodeId)
  /\ session' = ServiceCompleteDrawing(session, point, nodeId)
  /\ clicked' = Null
  /\ event' = EventOf("completeDrawing")
  /\ UNCHANGED << mode, isAnalyzing, deleting, defaultSettings, instance >>
  /\ UNCHANGED << storeVars, svc, backend, creating, nPicks, snapCall >>

\* cancelDrawing on the store, cancel on the service
BothCancel ==
  /\ Quiet
  /\ drawingMode' = CancelDrawingOf(drawingMode)
  /\ session' = ServiceCancel(session)
  /\ clicked' = Null
  /\ event' = EventOf("cancelDrawing")
  /\ UNCHANGED << mode, isAnalyzing, deleting, defaultSettings, instance >>
  /\ UNCHANGED << projectId, nodes, frames, error, snapSettings, activeSnapPoint, svc,
                  commits, backend, creating, nPicks, snapCall >>

\* setDrawingConfig on the store, setConfig on the service
BothSetConfig(continuous) ==
  /\ Quiet
  /\ drawingMode' = [drawingMode EXCEPT !.config.continuousMode = continuous]
  /\ session' = ServiceSetConfig(session, continuous)
  /\ clicked' = Null
  /\ event' = EventOf("setDrawingConfig")
  /\ UNCHANGED << mode, isAnalyzing, deleting, defaultSettings, instance >>
  /\ UNCHANGED << projectId, nodes, frames, error, snapSettings, activeSnapPoint, svc,
                  commits, backend, creating, nPicks, snapCall >>

\* each operation goes to both sessions once the requests of the one before have
\* succeeded
SerialNext ==
  \/ \E point \in SerialPoints, nodeId \in SerialNodeIds : BothStart(point, nodeId)
  \/ \E point \in SerialPoints : BothMove(point)
  \/ \E point \in SerialPoints, nodeId \in SerialNodeIds : BothCommit(point, nodeId)
  \/ BothCancel
  \/ \E continuous \in BOOLEAN : BothSetConfig(continuous)
  \/ \E k \in 1..Len(commits) : CommitResolved(k)

SerialSpec == ChainInit /\ [][SerialNext]_vars

----------------------------------------------------------------------------
(* SingletonSpec: the SnapService singleton and the module's default settings *)

\* new SnapService(): this.settings is the DEFAULT_SNAP_SETTINGS object itself
NewSnapService == [settings |-> defaultSettings, nodes |-> << >>, frames |-> << >>]

\* the module after the first getSnapService(), before any component has mounted
SingletonInit ==
  /\ projectId = Null
  /\ nodes = << >>
  /\ frames = << >>
  /\ error = Null
  /\ snapSettings = DEFAULT_SNAP_SETTINGS
  /\ activeSnapPoint = Null
  /\ drawingMode = INITIAL_DRAWING_MODE
  /\ commits = << >>
  /\ backend = [projectId |-> 1, nodeId |-> 1, frameId |-> 1]
  /\ creating = 0
  /\ nPicks = 0
  /\ clicked = Null
  /\ snapCall = Null
  /\ event = Null
  /\ mode = "draw"
  /\ isAnalyzing = FALSE
  /\ deleting = {}
  /\ session = INITIAL_DRAWING_SESSION
  /\ defaultSettings = DEFAULT_SNAP_SETTINGS
  /\ instance = "default"
  /\ svc = NewSnapService

\* getSnapService() finding no instance: a SnapService is constructed without arguments
GetSnapService ==
  /\ instance = "none"
  /\ svc' = NewSnapService
  /\ instance' = "default"
  /\ snapCall' = Null
  /\ event' = EventOf("getSnapService")
  /\ UNCHANGED otherVars
  /\ UNCHANGED << storeVars, commits, backend, creating, nPicks, clicked >>

\* resetSnapService(): the instance is dropped
ResetSnapService ==
  /\ instance' = "none"
  /\ snapCall' = Null
  /\ event' = EventOf("resetSnapService")
  /\ UNCHANGED otherVars
  /\ UNCHANGED << storeVars, svc, commits, backend, creating, nPicks, clicked >>

\* snapService.toggle(): enabled is flipped in place, in whichever object
\* this.settings is
SvcToggle ==
  /\ svc' = [svc EXCEPT !.settings.enabled = ~@]
  /\ defaultSettings' = IF instance = "default" THEN svc'.settings ELSE defaultSettings
  /\ snapCall' = Null
  /\ event' = EventOf("toggle")
  /\ UNCHANGED << mode, isAnalyzing, deleting, session, instance >>
  /\ UNCHANGED << storeVars, commits, backend, creating, nPicks, clicked >>

\* the calls go to the instance getSnapService() returns
SingletonNext ==
  \/ GetSnapService
  \/ ResetSnapService
  \/ instance # "none" /\ SvcToggle
  \/ \E t \in ThresholdChoices : instance # "none" /\ SvcUpdateSettings([threshold |-> t])
  \/ \E e \in BOOLEAN : instance # "none" /\ SvcUpdateSettings([enabled |-> e])
  \/ \E cursor \in SnapCursors : instance # "none" /\ SvcFindSnapPoint(cursor)

SingletonSpec == SingletonInit /\ [][SingletonNext]_vars

----------------------------------------------------------------------------
(* RaceSpec: a polyline interrupted by cancel or toggle while its commits are pending *)

\* clicks of one interrupted polyline
MaxRacePicks == 3

RaceNext ==
  \/ ToggleDrawingMode
  \/ CancelDrawing
  \/ \E hit \in ChainHitChoices : nPicks < MaxRacePicks /\ HandleClick(hit)
  \/ \E k \in 1..Len(commits) : CommitResolved(k)
  \/ \E k \in 1..Len(commits) : CommitRejected(k)

RaceSpec == ChainInit /\ [][RaceNext]_vars

----------------------------------------------------------------------------
(* Properties of findSnapPoint (checked under SnapSpec) *)

\* a position is within the call's threshold of its cursor: distance <= threshold
NearCursor(call, position) ==
  LET d == DistSq(call.cursor, position)
      threshold == call.settings.threshold
  IN  /\ ~IsNaN(d)
      /\ threshold.n >= 0
      /\ QCmp(d, QMul(threshold, threshold)) <= 0

CandidatesOf(call) == Candidates(call.settings, svc.nodes, svc.frames, call.cursor)

\* C1: a candidate returned by findSnapPoint lies within the threshold in effect at the
\* call, and when no generated candidate is within the threshold the result is null.
C1_ResultWithinThreshold ==
  snapCall # Null =>
    LET call == Val(snapCall)
        candidates == CandidatesOf(call)
    IN  /\ call.result # Null => NearCursor(call, Val(call.result).position)
        /\ (\A i \in 1..Len(candidates) : ~NearCursor(call, candidates[i].position))
             => call.result = Null

\* a call returned a snap while another generated candidate lay beyond the threshold
C1_Witness ==
  /\ snapCall # Null
  /\ Val(snapCall).result # Null
  /\ Val(Val(snapCall).result).distance.n > 0
  /\ LET candidates == CandidatesOf(Val(snapCall))
     IN  \E i \in 1..Len(candidates) : ~NearCursor(Val(snapCall), candidates[i].position)

\* C2: with enabled = false findSnapPoint returns null, whatever the query position, the
\* points and elements, the per-type flags, the threshold and the grid spacing.
C2_DisabledReturnsNull ==
  (snapCall # Null /\ ~Val(snapCall).settings.enabled) => Val(snapCall).result = Null

\* a disabled call for which some generated candidate was within the threshold
C2_Witness ==
  /\ snapCall # Null
  /\ ~Val(snapCall).settings.enabled
  /\ LET candidates == CandidatesOf(Val(snapCall))
     IN  \E i \in 1..Len(candidates) : NearCursor(Val(snapCall), candidates[i].position)

----------------------------------------------------------------------------
(* Properties of the drawing session *)

HasElementRequest(c) == \E i \in 1..Len(c.sent) : c.sent[i].kind = "createElement"

\* the step fails commit k / completes commit k
Fails(k) == commits[k].status = "pending" /\ commits'[k].status = "failed"
Succeeds(k) == commits[k].status = "pending" /\ commits'[k].status = "done"

InNodes(id, ns) == \E i \in 1..Len(ns) : ns[i].id = id

\* C3: a commit pick identical to the anchor (same structural position, or the same point
\* identity) issues no create-element request.
C3_IdenticalPickIssuesNoElement ==
  \A k \in 1..Len(commits) :
    (\/ commits[k].endPoint = commits[k].startPoint
     \/ (commits[k].endNodeId # Null /\ commits[k].endNodeId = commits[k].startNodeId))
      => ~HasElementRequest(commits[k])

\* C4: in continuous mode three free picks p1, p2, p3 yield exactly two create-element
\* requests, p2 is created once, and the second element starts at the id returned for p2.
C4_ChainSharesMiddlePoint ==
  (/\ nPicks = MaxChainPicks
   /\ Len(commits) = 2
   /\ \A k \in 1..2 : /\ commits[k].status = "done"
                      /\ commits[k].continuousMode
                      /\ commits[k].endNodeId = Null
   /\ commits[1].sent[1].kind = "createPoint")
    => LET elements == SelectSeq(Requests, LAMBDA r : r.kind = "createElement")
           points == SelectSeq(Requests, LAMBDA r : r.kind = "createPoint")
           p2 == commits[1].endPoint
       IN  /\ Len(elements) = 2
           /\ elements[2].node_i_id = commits[1].finalEndNodeId
           /\ Cardinality({i \in 1..Len(points) : points[i].position = Some(p2)}) = 1

\* C5: when a creation request of a commit fails, the session returns to idle with the
\* anchor cleared.
C5_FailureReturnsToIdle ==
  [][\A k \in 1..Len(commits) :
       Fails(k) => /\ drawingMode'.state = "idle"
                   /\ drawingMode'.startPoint = Null
                   /\ drawingMode'.startNodeId = Null]_vars

\* C6: when a commit fails after creating points, every point it created stays in the
\* node list (nothing is removed, no request is issued) and the store's error is set.
C6_FailureKeepsPoints ==
  [][\A k \in 1..Len(commits) :
       Fails(k) => /\ nodes' = nodes
                   /\ \A id \in commits[k].created : InNodes(id, nodes')
                   /\ Requests' = Requests
                   /\ error' = Some("Failed to create frame")]_vars

\* the element request of a commit failed after the commit had created a point
C6_Witness ==
  \E k \in 1..Len(commits) :
    /\ commits[k].status = "failed"
    /\ commits[k].stage = "createFrame"
    /\ commits[k].created # {}
    /\ \A id \in commits[k].created : InNodes(id, nodes)
    /\ error = Some("Failed to create frame")

\* C7: on a commit pick the session's transition (idle, or re-armed at the end position)
\* takes effect in the pick itself, before any creation request has resolved.
C7_TransitionAtPick ==
  [][Len(commits') > Len(commits) =>
       LET c == commits'[Len(commits')]
       IN  IF c.continuousMode
           THEN /\ drawingMode'.state = "drawing"
                /\ drawingMode'.startPoint = Some(c.endPoint)
           ELSE /\ drawingMode'.state = "idle"
                /\ drawingMode'.startPoint = Null]_vars

\* C8: once cancelDrawing or toggleDrawingMode has run, no further creation request is
\* issued for a commit that was pending at that moment.
C8_CancelStopsRequests ==
  [][\A k \in 1..Len(commits) :
       commits[k].cancelled => commits'[k].sent = commits[k].sent]_vars

\* C9: a pick from idle with drawing mode on gives state drawing with the anchor at the
\* pick converted to structural coordinates (x, -z, y), the live point equal to the
\* anchor, and no creation request.
C9_FirstPickSetsAnchor ==
  [][(clicked' # Null /\ Val(clicked').from = "idle") =>
       LET p1 == Val(clicked').render
       IN  /\ drawingMode'.isActive
           /\ drawingMode'.state = "drawing"
           /\ drawingMode'.startPoint = Some(Vec(p1.x, QNeg(p1.z), p1.y))
           /\ drawingMode'.currentPoint = drawingMode'.startPoint
           /\ commits' = commits
           /\ Requests' = Requests]_vars

\* a first pick has just set an anchor off the structural XZ plane
C9_Witness ==
  /\ clicked # Null
  /\ Val(clicked).from = "idle"
  /\ drawingMode.state = "drawing"
  /\ drawingMode.startPoint # Null
  /\ Val(drawingMode.startPoint).y.n # 0
  /\ Val(clicked).render.z.n # 0

\* C10: after a successful commit, continuous mode leaves state drawing with the anchor
\* at the commit's end position and end point id; otherwise everything is cleared, idle.
C10_AfterSuccessfulCommit ==
  [][\A k \in 1..Len(commits) :
       Succeeds(k) =>
         IF commits[k].continuousMode
         THEN /\ drawingMode'.state = "drawing"
              /\ drawingMode'.startPoint = Some(commits[k].endPoint)
              /\ drawingMode'.startNodeId = commits[k].finalEndNodeId
              /\ drawingMode'.startNodeId # Null
         ELSE /\ drawingMode'.state = "idle"
              /\ drawingMode'.startPoint = Null
              /\ drawingMode'.startNodeId = Null
              /\ drawingMode'.currentPoint = Null]_vars

\* the sequence of requests a commit is to send, given the ids its responses carried
CreatePointRequest(point) ==
  [kind |-> "createPoint", position |-> Some(point), node_i_id |-> Null, node_j_id |-> Null]

CreateElementRequest(i, j) ==
  [kind |-> "createElement", position |-> Null, node_i_id |-> i, node_j_id |-> j]

IsPrefix(s, t) == Len(s) <= Len(t) /\ s = SubSeq(t, 1, Len(s))

NodeAt(id, point, ns) == \E i \in 1..Len(ns) : ns[i] = NodeResponse(id, point)

\* C11: a commit resolves its start point first (the anchor's id when set, else one
\* createPoint at the anchor), then its end point the same way from the pick, and only
\* then sends one createElement between the two resolved ids; a supplied id is never
\* created again.
C11_CommitRequestOrder ==
  \A k \in 1..Len(commits) :
    LET c == commits[k]
        forStart == IF c.anchorNodeId = Null THEN << CreatePointRequest(c.startPoint) >>
                    ELSE << >>
        forEnd == IF c.endNodeId = Null THEN << CreatePointRequest(c.endPoint) >>
                  ELSE << >>
        expected == forStart \o forEnd
                      \o << CreateElementRequest(c.startNodeId, c.finalEndNodeId) >>
        answered == Cardinality(c.created)
    IN  /\ Len(c.sent) >= 1
        /\ IF HasElementRequest(c)
           THEN /\ c.sent = expected
                /\ answered = Len(forStart) + Len(forEnd)
                /\ c.startNodeId # Null /\ c.finalEndNodeId # Null
                /\ c.anchorNodeId # Null => c.startNodeId = c.anchorNodeId
                /\ c.endNodeId # Null => c.finalEndNodeId = c.endNodeId
                /\ c.anchorNodeId = Null =>
                     /\ Val(c.startNodeId) \in c.created
                     /\ NodeAt(Val(c.startNodeId), c.startPoint, nodes)
                /\ c.endNodeId = Null =>
                     /\ Val(c.finalEndNodeId) \in c.created
                     /\ NodeAt(Val(c.finalEndNodeId), c.endPoint, nodes)
                /\ (c.anchorNodeId = Null /\ c.endNodeId = Null) =>
                     Val(c.startNodeId) < Val(c.finalEndNodeId)
           ELSE /\ IsPrefix(c.sent, forStart \o forEnd)
                /\ c.status # "done"
                /\ answered <= Len(c.sent)
        /\ c.status = "pending" => Len(c.sent) = answered + 1
        /\ c.status = "done" => HasElementRequest(c)

\* a finished commit that reused the anchor's id and created only its end point
C11_Witness ==
  \E k \in 1..Len(commits) :
    /\ commits[k].status = "done"
    /\ commits[k].anchorNodeId # Null
    /\ commits[k].endNodeId = Null
    /\ Len(commits[k].sent) = 2
    /\ Cardinality(commits[k].created) = 1

\* the step is a first pick (handleClick from idle), made on a node-type snap or not
FirstPick == clicked' # Null /\ Val(clicked').from = "idle"
OnNodeSnap == activeSnapPoint # Null /\ Val(activeSnapPoint).type = "node"

\* the step gives the anchor an identity, or another one
AnchorIdentitySet ==
  /\ drawingMode'.startNodeId # Null
  /\ \/ drawingMode'.startNodeId # drawingMode.startNodeId
     \/ drawingMode'.startPoint # drawingMode.startPoint

----------------------------------------------------------------------------
(* Properties of findSnapPoint: selection, grid, intersection, perpendicular *)

\* the generated candidates of a call that pass its threshold, in generation order
ValidOf(call) ==
  SelectSeq(CandidatesOf(call), LAMBDA c : NearCursor(call, c.position))

SameDistance(a, b) == QCmp(a.distance, b.distance) = 0

\* C13: among the generated candidates within the threshold, findSnapPoint returns one of
\* minimum distance.
C13_ReturnsMinimumDistance ==
  (snapCall # Null /\ Val(snapCall).result # Null) =>
    LET call == Val(snapCall)
        valid == ValidOf(call)
        best == Val(call.result)
    IN  /\ \E i \in 1..Len(valid) : valid[i] = best
        /\ \A i \in 1..Len(valid) : QCmp(valid[i].distance, best.distance) >= 0

\* the first candidate within the threshold, in generation order, was not the closest
C13_Witness ==
  /\ snapCall # Null
  /\ Val(snapCall).result # Null
  /\ LET valid == ValidOf(Val(snapCall))
     IN  QCmp(Val(Val(snapCall).result).distance, valid[1].distance) < 0

\* C14: when a node candidate and the grid candidate tie at the minimum distance within
\* the threshold, findSnapPoint returns the node candidate.
C14_NodeBeatsGridOnTie ==
  (snapCall # Null /\ Val(snapCall).result # Null) =>
    LET call == Val(snapCall)
        valid == ValidOf(call)
        best == Val(call.result)
    IN  (/\ \E i \in 1..Len(valid) : valid[i].type = "node" /\ SameDistance(valid[i], best)
         /\ \E i \in 1..Len(valid) : valid[i].type = "grid" /\ SameDistance(valid[i], best))
          => best.type = "node"

\* a node and the grid point, at different positions, tied at the minimum distance
C14_Witness ==
  /\ snapCall # Null
  /\ Val(snapCall).result # Null
  /\ Val(Val(snapCall).result).type = "node"
  /\ LET valid == ValidOf(Val(snapCall))
         best == Val(Val(snapCall).result)
     IN  \E i \in 1..Len(valid) : /\ valid[i].type = "grid"
                                  /\ SameDistance(valid[i], best)
                                  /\ valid[i].position # best.position

\* rank in node > endpoint > midpoint > perpendicular > intersection > grid
Priority(type) ==
  CASE type = "node" -> 1
    [] type = "endpoint" -> 2
    [] type = "midpoint" -> 3
    [] type = "perpendicular" -> 4
    [] type = "intersection" -> 5
    [] type = "grid" -> 6

\* C15: of candidates of different types that tie at the minimum distance within the
\* threshold, findSnapPoint returns the one first in node > endpoint > midpoint >
\* perpendicular > intersection > grid.
C15_TieBrokenByPriority ==
  (snapCall # Null /\ Val(snapCall).result # Null) =>
    LET call == Val(snapCall)
        valid == ValidOf(call)
        best == Val(call.result)
    IN  \A i \in 1..Len(valid) :
          SameDistance(valid[i], best) => Priority(best.type) <= Priority(valid[i].type)

\* the call of the scenario: points 1 (0,0,0) and 2 (5,0,0), element 10, threshold 0.5,
\* grid spacing 1, query (2.4, 0.05, 0), with the given types enabled
ScenarioCall(on) ==
  /\ snapCall # Null
  /\ svc.nodes = ToNodeData(SampleNodes(2))
  /\ svc.frames = ToFrameData(SampleNodes(2), SampleFrames(2))
  /\ Val(snapCall).cursor = VI(240, 5, 0)
  /\ Val(snapCall).settings = [enabled |-> TRUE, activeSnaps |-> ActiveSnapsOf(on),
                               threshold |-> QI(50), gridSpacing |-> QI(100)]

\* C16 (as stated): in the scenario with all six types enabled findSnapPoint returns the
\* midpoint candidate at (2.5, 0, 0).
C16_ScenarioReturnsMidpoint ==
  ScenarioCall(SnapTypes) =>
    /\ Val(snapCall).result # Null
    /\ Val(Val(snapCall).result).type = "midpoint"
    /\ Val(Val(snapCall).result).position = VI(250, 0, 0)

\* C16 (amended): in the scenario with all six types enabled findSnapPoint returns the
\* perpendicular candidate of element 10 at (2.4, 0, 0), distance 0.05; with the four
\* default types (perpendicular and intersection off) it returns the midpoint candidate
\* at (2.5, 0, 0).
C16_ScenarioReturnsPerpendicular ==
  /\ ScenarioCall(SnapTypes) =>
       Val(snapCall).result =
         Some([type |-> "perpendicular", position |-> VI(240, 0, 0),
               elementId |-> Some(10), distance |-> QI(25)])
  /\ ScenarioCall({"endpoint", "midpoint", "node", "grid"}) =>
       Val(snapCall).result =
         Some([type |-> "midpoint", position |-> VI(250, 0, 0),
               elementId |-> Some(10), distance |-> QI(125)])

\* the scenario's call with all six types enabled has been made
C16_Witness == ScenarioCall(SnapTypes) /\ Val(snapCall).result # Null

\* a is an integer multiple of spacing; a is within half a spacing of b
IsMultipleOf(a, spacing) == ~IsNaN(a) /\ QDiv(a, spacing).d = 1
WithinHalf(a, b, spacing) ==
  LET diff == QSub(a, b)
  IN  QCmp(QMul(QI(2), [n |-> Abs(diff.n), d |-> diff.d]), spacing) <= 0

GridCall ==
  /\ snapCall # Null
  /\ Val(snapCall).settings.enabled
  /\ Val(snapCall).settings.activeSnaps.grid
  /\ Val(snapCall).settings.gridSpacing.n > 0

\* C17: the grid type generates exactly one candidate per query, with x and z each
\* rounded to the nearest multiple of gridSpacing and y the query's; with only grid
\* enabled, spacing 1 and threshold 0.5, query (2.52, 0, 0.03) returns (3, 0, 0).
C17_GridRoundsHorizontal ==
  /\ GridCall =>
       LET call == Val(snapCall)
           spacing == call.settings.gridSpacing
           grids == SelectSeq(CandidatesOf(call), LAMBDA c : c.type = "grid")
       IN  /\ Len(grids) = 1
           /\ grids[1].elementId = Null
           /\ grids[1].position.y = call.cursor.y
           /\ IsMultipleOf(grids[1].position.x, spacing)
           /\ IsMultipleOf(grids[1].position.z, spacing)
           /\ WithinHalf(grids[1].position.x, call.cursor.x, spacing)
           /\ WithinHalf(grids[1].position.z, call.cursor.z, spacing)
  /\ (/\ snapCall # Null
      /\ Val(snapCall).cursor = VI(252, 0, 3)
      /\ Val(snapCall).settings = [enabled |-> TRUE, activeSnaps |-> ActiveSnapsOf({"grid"}),
                                   threshold |-> QI(50), gridSpacing |-> QI(100)])
       => /\ Val(snapCall).result # Null
          /\ Val(Val(snapCall).result).type = "grid"
          /\ Val(Val(snapCall).result).position = VI(300, 0, 0)

\* the scenario's call, only grid enabled, has returned (3, 0, 0)
C17_Witness ==
  /\ GridCall
  /\ Val(snapCall).cursor = VI(252, 0, 3)
  /\ Val(snapCall).settings.activeSnaps = ActiveSnapsOf({"grid"})
  /\ Val(snapCall).settings.gridSpacing = QI(100)
  /\ Val(snapCall).settings.threshold = QI(50)
  /\ Val(snapCall).result # Null
  /\ Val(Val(snapCall).result).position = VI(300, 0, 0)

\* C18: for a query whose x and z are multiples of gridSpacing the grid candidate is the
\* query itself at distance 0, and the grid candidate of any query snaps to itself.
C18_GridSnapIdempotent ==
  GridCall =>
    LET call == Val(snapCall)
        spacing == call.settings.gridSpacing
        first == FindGridSnap(call.settings, call.cursor)
        again == FindGridSnap(call.settings, first.position)
    IN  /\ again.position = first.position
        /\ again.distance = QI(0)
        /\ (IsMultipleOf(call.cursor.x, spacing) /\ IsMultipleOf(call.cursor.z, spacing))
             => (first.position = call.cursor /\ first.distance = QI(0))

\* a query away from the origin that lies on a grid intersection
C18_Witness ==
  /\ GridCall
  /\ Val(snapCall).cursor.x.n # 0
  /\ Val(snapCall).cursor.z.n # 0
  /\ IsMultipleOf(Val(snapCall).cursor.x, Val(snapCall).settings.gridSpacing)
  /\ IsMultipleOf(Val(snapCall).cursor.z, Val(snapCall).settings.gridSpacing)
  /\ Val(snapCall).result # Null
  /\ Val(Val(snapCall).result).type = "grid"

\* C19: the intersection computed for elements (A, B) equals in all three coordinates
\* the one computed for (B, A), and one is absent exactly when the other is.
C19_IntersectionSymmetric ==
  (/\ snapCall # Null
   /\ Val(snapCall).settings.enabled
   /\ Val(snapCall).settings.activeSnaps.intersection)
    => \A i, j \in 1..Len(svc.frames) :
         FindLineIntersection(svc.frames[i], svc.frames[j])
           = FindLineIntersection(svc.frames[j], svc.frames[i])

\* position is a point of the frame's segment with parameter strictly inside 1% .. 99%
InsideSegment(frame, position) ==
  LET dir == VSub(frame.endPos, frame.startPos)
      lenSq == VDot(dir, dir)
      along == VDot(VSub(position, frame.startPos), dir)
  IN  /\ lenSq.n # 0
      /\ position = VAdd(frame.startPos, VScale(dir, QDiv(along, lenSq)))
      /\ QCmp(QMul(QI(100), along), lenSq) > 0
      /\ QCmp(QMul(QI(100), along), QMul(QI(99), lenSq)) < 0

\* the cursor's projection falls at or beyond an end of the frame, or the frame has no length
ProjectsOutside(frame, cursor) ==
  LET dir == VSub(frame.endPos, frame.startPos)
      lenSq == VDot(dir, dir)
      along == VDot(VSub(cursor, frame.startPos), dir)
  IN  lenSq.n = 0 \/ along.n <= 0 \/ QCmp(along, lenSq) >= 0

PerpendicularCall ==
  /\ snapCall # Null
  /\ Val(snapCall).settings.enabled
  /\ Val(snapCall).settings.activeSnaps.perpendicular

\* C20: a perpendicular candidate, when emitted, is a point of its element's segment with
\* parameter strictly between 1% and 99% of the length; for a query projecting at or
\* beyond an end, and for a zero-length element, none is emitted.
C20_PerpendicularInsideSegment ==
  PerpendicularCall =>
    LET call == Val(snapCall)
        perps == SelectSeq(CandidatesOf(call), LAMBDA c : c.type = "perpendicular")
    IN  /\ \A i \in 1..Len(perps) :
             \E j \in 1..Len(svc.frames) :
               /\ perps[i].elementId = Some(svc.frames[j].id)
               /\ InsideSegment(svc.frames[j], perps[i].position)
        /\ \A j \in 1..Len(svc.frames) :
             ProjectsOutside(svc.frames[j], call.cursor) =>
               \A i \in 1..Len(perps) : perps[i].elementId # Some(svc.frames[j].id)

\* one element got a perpendicular candidate, the query projects beyond the end of
\* another, and a zero-length element is present
C20_Witness ==
  /\ PerpendicularCall
  /\ \E j \in 1..Len(svc.frames) : svc.frames[j].startPos = svc.frames[j].endPos
  /\ \E j \in 1..Len(svc.frames) :
       /\ svc.frames[j].startPos # svc.frames[j].endPos
       /\ ProjectsOutside(svc.frames[j], Val(snapCall).cursor)
  /\ \E i \in 1..Len(CandidatesOf(Val(snapCall))) :
       CandidatesOf(Val(snapCall))[i].type = "perpendicular"

\* the horizontal (XZ) part of a vector, and the 2D cross product of two of them
Horizontal(v) == Vec(v.x, QI(0), v.z)
Cross2(a, b) == QSub(QMul(a.x, b.z), QMul(a.z, b.x))

NotParallel(f, g) ==
  Cross2(VSub(f.endPos, f.startPos), VSub(g.endPos, g.startPos)).n # 0

\* p's horizontal coordinates lie on the horizontal projection of the frame's segment
OnProjection(frame, p) ==
  LET dir == Horizontal(VSub(frame.endPos, frame.startPos))
      to == Horizontal(VSub(p, frame.startPos))
      along == VDot(to, dir)
  IN  /\ Cross2(to, dir).n = 0
      /\ along.n >= 0
      /\ QCmp(along, VDot(dir, dir)) <= 0

\* the frame's height at the parameter of p along its horizontal projection
HeightAt(frame, p) ==
  LET dir == Horizontal(VSub(frame.endPos, frame.startPos))
      to == Horizontal(VSub(p, frame.startPos))
  IN  QAdd(frame.startPos.y,
           QMul(QDiv(VDot(to, dir), VDot(dir, dir)),
                QSub(frame.endPos.y, frame.startPos.y)))

\* each segment has its ends on both sides of (or on) the other's line
Straddles(f, g) ==
  LET dir == VSub(f.endPos, f.startPos)
      a == Cross2(dir, VSub(g.startPos, f.startPos))
      b == Cross2(dir, VSub(g.endPos, f.startPos))
  IN  (a.n <= 0 /\ b.n >= 0) \/ (a.n >= 0 /\ b.n <= 0)

CrossingPairs(fs) ==
  {pair \in (1..Len(fs)) \X (1..Len(fs)) :
     /\ pair[1] < pair[2]
     /\ NotParallel(fs[pair[1]], fs[pair[2]])
     /\ Straddles(fs[pair[1]], fs[pair[2]])
     /\ Straddles(fs[pair[2]], fs[pair[1]])}

IntersectionCall ==
  /\ snapCall # Null
  /\ Val(snapCall).settings.enabled
  /\ Val(snapCall).settings.activeSnaps.intersection

\* C21: an intersection candidate is emitted for an unordered pair of elements only if
\* the pair is not parallel in the horizontal plane and the segments meet (both
\* parameters in [0, 1]); its x and z lie on both elements' horizontal projections and
\* its y is the first element's height interpolated at its parameter.
C21_IntersectionOfCrossingPair ==
  IntersectionCall =>
    LET call == Val(snapCall)
        inters == SelectSeq(CandidatesOf(call), LAMBDA c : c.type = "intersection")
        pairs == CrossingPairs(svc.frames)
    IN  /\ Len(inters) <= Cardinality(pairs)
        /\ \A n \in 1..Len(inters) :
             \E pair \in pairs :
               /\ OnProjection(svc.frames[pair[1]], inters[n].position)
               /\ OnProjection(svc.frames[pair[2]], inters[n].position)
               /\ inters[n].position.y = HeightAt(svc.frames[pair[1]], inters[n].position)
        /\ \A i, j \in 1..Len(svc.frames) :
             FindLineIntersection(svc.frames[i], svc.frames[j]) # Null
               => /\ NotParallel(svc.frames[i], svc.frames[j])
                  /\ Straddles(svc.frames[i], svc.frames[j])
                  /\ Straddles(svc.frames[j], svc.frames[i])

\* an intersection above the ground was emitted for a sloping first element, while
\* another pair is not parallel and does not meet
C21_Witness ==
  /\ IntersectionCall
  /\ \E n \in 1..Len(CandidatesOf(Val(snapCall))) :
       /\ CandidatesOf(Val(snapCall))[n].type = "intersection"
       /\ CandidatesOf(Val(snapCall))[n].position.y.n > 0
  /\ \E i, j \in 1..Len(svc.frames) :
       /\ i < j
       /\ NotParallel(svc.frames[i], svc.frames[j])
       /\ ~Straddles(svc.frames[i], svc.frames[j])

\* C22: an update that sets the threshold or the grid spacing to a non-positive value is
\* rejected, so every findSnapPoint call runs with a positive threshold and grid spacing.
C22_NonPositiveRejected ==
  snapCall # Null =>
    /\ Val(snapCall).settings.threshold.n > 0
    /\ Val(snapCall).settings.gridSpacing.n > 0

----------------------------------------------------------------------------
(* Frame conditions of the drawing handlers *)

\* the model (project, points, elements, error) and everything sent to or expected
\* from the persistence collaborator are as before the step
ModelUntouched ==
  /\ projectId' = projectId
  /\ nodes' = nodes
  /\ frames' = frames
  /\ error' = error
  /\ backend' = backend
  /\ creating' = creating
  /\ Requests' = Requests
  /\ Len(commits') = Len(commits)
  /\ \A k \in 1..Len(commits) : commits'[k].status = commits[k].status

Ran(handler) == event' # Null /\ Val(event').handler = handler

\* C23: toggleDrawingMode run while drawing mode is on and the state is drawing turns the
\* mode off, sets idle, clears the anchor, its id and the live point, issues no creation
\* request and changes nothing else; run while off it turns the mode on with state idle.
C23_ToggleDiscardsSession ==
  [][Ran("toggleDrawingMode") =>
       /\ ModelUntouched
       /\ snapSettings' = snapSettings
       /\ activeSnapPoint' = activeSnapPoint
       /\ svc' = svc
       /\ drawingMode'.config = drawingMode.config
       /\ IF drawingMode.isActive
          THEN drawingMode' = [isActive |-> FALSE, state |-> "idle", startPoint |-> Null,
                               startNodeId |-> Null, currentPoint |-> Null,
                               config |-> drawingMode.config]
          ELSE /\ drawingMode'.isActive
               /\ drawingMode'.state = "idle"]_vars

\* the toggle has just run on an active session, which it left off, idle and cleared
C23_Witness ==
  /\ event = Some([handler |-> "toggleDrawingMode", isActive |-> TRUE, state |-> "drawing"])
  /\ ~drawingMode.isActive
  /\ drawingMode.state = "idle"
  /\ drawingMode.startPoint = Null

\* C24: a pick made while drawing mode is off is ignored: the session is unchanged and
\* no creation request is issued.
C24_PickIgnoredWhileOff ==
  [][(Ran("handleClick") /\ ~drawingMode.isActive) =>
       /\ drawingMode' = drawingMode
       /\ ModelUntouched
       /\ commits' = commits
       /\ nPicks' = nPicks
       /\ clicked' = Null]_vars

\* a pick has just been made on the ground with drawing mode off, after the mode had
\* been used
C24_Witness ==
  /\ event # Null
  /\ Val(event).handler = "handleClick"
  /\ ~Val(event).isActive
  /\ ~drawingMode.isActive
  /\ nPicks > 0

\* C25: a pointer move (useFrame calling updateDrawingPoint) in state drawing changes
\* only the live point: state, anchor, anchor id, config and the model are unchanged and
\* no creation request is issued; in state idle updateDrawingPoint changes nothing.
C25_MoveChangesLivePointOnly ==
  [][/\ drawingMode.state = "idle" =>
          \A h \in Hits : UpdateDrawingPointOf(drawingMode, ToStructural(h)) = drawingMode
     /\ Ran("useFrame") =>
          /\ ModelUntouched
          /\ commits' = commits
          /\ snapSettings' = snapSettings
          /\ svc' = svc
          /\ IF drawingMode.state = "drawing"
             THEN /\ \E live \in {drawingMode.currentPoint}
                                     \cup {Some(ToStructural(h)) : h \in Hits} :
                       drawingMode' = [drawingMode EXCEPT !.currentPoint = live]
                  /\ drawingMode'.currentPoint # Null
             ELSE drawingMode' = drawingMode]_vars

\* a pointer move has just put the live point away from the anchor
C25_Witness ==
  /\ event = Some([handler |-> "useFrame", isActive |-> TRUE, state |-> "drawing"])
  /\ drawingMode.state = "drawing"
  /\ drawingMode.currentPoint # Null
  /\ drawingMode.currentPoint # drawingMode.startPoint

\* C26: cancelDrawing in state drawing clears the anchor, its id and the live point and
\* sets idle, leaving isActive and config as they were; in state idle it leaves the
\* session unchanged.
C26_CancelClearsAndIsIdempotent ==
  [][Ran("cancelDrawing") =>
       /\ drawingMode'.isActive = drawingMode.isActive
       /\ drawingMode'.config = drawingMode.config
       /\ drawingMode'.state = "idle"
       /\ drawingMode'.startPoint = Null
       /\ drawingMode'.startNodeId = Null
       /\ drawingMode'.currentPoint = Null
       /\ CancelDrawingOf(drawingMode') = drawingMode'
       /\ drawingMode.state = "idle" => drawingMode' = drawingMode]_vars

----------------------------------------------------------------------------
(* Coordinate frames, the snapshot, purity of findSnapPoint, and the session's cycle *)

\* C27: structural -> render (x, z, -y) and render -> structural (x, -z, y) are mutual
\* inverses, and every position that crosses the boundary (snapshot, pick, live point,
\* preview) goes through exactly one of the two.
C27_MappingsAppliedEverywhere ==
  /\ \A h \in Hits : ToRender(ToStructural(h)) = h
  /\ \A i \in 1..Len(nodes) :
       ToStructural(ToRender(nodes[i])) = Vec(nodes[i].x, nodes[i].y, nodes[i].z)
  /\ \A i \in 1..Len(svc.nodes) :
       \E j \in 1..Len(nodes) :
         /\ nodes[j].id = svc.nodes[i].id
         /\ ToStructural(svc.nodes[i].position) = Vec(nodes[j].x, nodes[j].y, nodes[j].z)
  /\ (clicked # Null /\ Val(clicked).from = "idle") =>
       drawingMode.startPoint = Some(ToStructural(Val(clicked).render))
  /\ PreviewLine # Null =>
       /\ ToStructural(Val(PreviewLine).start) = Val(drawingMode.startPoint)
       /\ IF activeSnapPoint # Null
          THEN Val(PreviewLine).end = Val(activeSnapPoint).position
          ELSE ToStructural(Val(PreviewLine).end) = Val(drawingMode.currentPoint)

\* the resolver's points and elements were both built from one earlier or current state
\* of the store's lists (which only grow)
SnapshotOfOneVersion ==
  \E n \in 0..Len(nodes), m \in 0..Len(frames) :
    /\ svc.nodes = ToNodeData(SubSeq(nodes, 1, n))
    /\ svc.frames = ToFrameData(SubSeq(nodes, 1, n), SubSeq(frames, 1, m))
    /\ Len(svc.frames) = m

\* C28: at every findSnapPoint call the resolver's points and elements belong to one
\* version of the model: a step that replaces either part installs both from the
\* store's current lists, and no findSnapPoint call falls inside such a step.
C28_ConsistentSnapshot ==
  [][/\ SnapshotOfOneVersion'
     /\ (svc'.nodes # svc.nodes \/ svc'.frames # svc.frames) =>
          /\ Ran("useEffect")
          /\ svc'.nodes = ToNodeData(nodes)
          /\ svc'.frames = ToFrameData(nodes, frames)
          /\ activeSnapPoint' = activeSnapPoint
     /\ Ran("useFrame") => svc' = svc]_vars

\* findSnapPoint has just returned a point or element snap from a snapshot that was
\* replaced after an element had been drawn
C28_Witness ==
  /\ event # Null
  /\ Val(event).handler = "useFrame"
  /\ activeSnapPoint # Null
  /\ Val(activeSnapPoint).type \in {"node", "endpoint", "midpoint"}
  /\ Len(svc.frames) >= 1
  /\ Len(svc.nodes) >= 2

C30_NoTerminalState ==
  /\ event = Null => drawingMode.state = "idle"
  /\ ENABLED (CancelDrawing /\ drawingMode'.state = "idle")
  /\ IF ~drawingMode.isActive
     THEN ENABLED (ToggleDrawingMode /\ drawingMode'.isActive /\ drawingMode'.state = "idle")
     ELSE IF drawingMode.state = "idle"
          THEN ENABLED (\E hit \in HitChoices :
                          HandleClick(hit) /\ drawingMode'.state = "drawing")
          ELSE drawingMode.state = "drawing"

\* a commit has failed and the session, cancelled since, is idle with the mode on
C30_Witness ==
  /\ \E k \in 1..Len(commits) : commits[k].status = "failed"
  /\ event = Some([handler |-> "cancelDrawing", isActive |-> TRUE, state |-> "drawing"])
  /\ drawingMode.isActive
  /\ drawingMode.state = "idle"

----------------------------------------------------------------------------
(* The preview, the session's invariants and its races with pending commits *)

\* C31: while drawing, the preview runs from the anchor mapped to render coordinates to
\* the active snap position or, without a snap, to the live point mapped to render
\* coordinates.
C31_PreviewEndInRenderCoordinates ==
  (drawingMode.isActive /\ drawingMode.state = "drawing" /\ PreviewLine # Null) =>
    /\ Val(PreviewLine).start = ToRender(Val(drawingMode.startPoint))
    /\ Val(PreviewLine).end = IF activeSnapPoint # Null
                              THEN Val(activeSnapPoint).position
                              ELSE ToRender(Val(drawingMode.currentPoint))

\* C32: whenever the session state is idle, the anchor position, the anchor identity and
\* the live point are all none.
C32_IdleHasNoAnchor ==
  drawingMode.state = "idle" =>
    /\ drawingMode.startPoint = Null
    /\ drawingMode.startNodeId = Null
    /\ drawingMode.currentPoint = Null

\* C33: a pick that starts a commit while an earlier commit from the same anchor without
\* identity is still awaiting its responses does not issue a second createPoint for that
\* anchor position.
C33_AnchorCreatedOnce ==
  [][\A k \in 1..Len(commits) :
       (/\ Pending(k)
        /\ commits[k].anchorNodeId = Null
        /\ Ran("handleClick")
        /\ Len(commits') = Len(commits) + 1
        /\ commits'[Len(commits')].startPoint = commits[k].startPoint)
       => commits'[Len(commits')].sent[1] # CreatePointRequest(commits[k].startPoint)]_vars

\* the latest step was a pick made in state idle: startDrawing has just set the anchor
FirstPickDone == clicked # Null /\ Val(clicked).from = "idle"

\* C34: right after a pick has established an anchor with startDrawing, a response of a
\* commit started earlier leaves the anchor position and identity those of that pick.
C34_LateCommitKeepsNewAnchor ==
  [][(FirstPickDone /\ Ran("completeDrawing")) =>
       /\ drawingMode'.startPoint = Some(ToStructural(Val(clicked).render))
       /\ drawingMode'.startNodeId = Val(clicked).nodeId]_vars

----------------------------------------------------------------------------
(* Analysis mode and deleted points *)

\* C35: while the application mode is analysis, no step issues a point or element
\* creation request and none changes the node list or the frame list.
C35_AnalysisModeIsReadOnly ==
  [][mode = "analysis" =>
       /\ Requests' = Requests
       /\ nodes' = nodes
       /\ frames' = frames]_vars

\* C36: whenever a segment is being drawn from an anchor that carries an identity, that
\* identity is the id of a point in the node list.
C36_AnchorIdentityInNodeList ==
  (drawingMode.state = "drawing" /\ drawingMode.startNodeId # Null) =>
    InNodes(Val(drawingMode.startNodeId), nodes)

\* C37: whenever drawing mode is off, the session state is idle.
C37_OffImpliesIdle == ~drawingMode.isActive => drawingMode.state = "idle"

\* drawing mode off after a commit that was pending at the toggle has re-armed the anchor
C37_Witness ==
  /\ ~drawingMode.isActive
  /\ drawingMode.startPoint # Null
  /\ \E k \in 1..Len(commits) : commits[k].cancelled /\ commits[k].status = "done"

----------------------------------------------------------------------------
(* The store's drawing actions against DrawingService *)

\* C38: after every operation applied to both and answered by the backend, the store's
\* session and the service's session agree on the state, the anchor position and the
\* live position.
C38_StoreMatchesService ==
  Quiet =>
    /\ drawingMode.state = session.state
    /\ drawingMode.startPoint = session.startPoint
    /\ drawingMode.currentPoint = session.currentPoint

\* both sessions re-armed at the end point of a commit whose requests all succeeded,
\* and a later commit finished with continuous mode off
C38_Witness ==
  /\ Quiet
  /\ Len(commits) = 2
  /\ commits[1].status = "done" /\ commits[1].continuousMode
  /\ commits[2].status = "done" /\ ~commits[2].continuousMode
  /\ commits[2].startPoint = commits[1].endPoint
  /\ session.state = "idle"

----------------------------------------------------------------------------
(* The SnapService singleton *)

\* C39: the module's default settings never change, and the SnapService that
\* getSnapService() constructs after a reset starts with the default settings, whatever
\* toggle() and updateSettings() did to earlier instances.
C39_FreshInstanceHasDefaults ==
  [][/\ defaultSettings' = DEFAULT_SNAP_SETTINGS
     /\ Ran("getSnapService") => svc'.settings = DEFAULT_SNAP_SETTINGS]_vars
====
